---- MODULE Spec2Model ----
(***************************************************************************)
(* Model of the integration driver of intg-requests (driver.py): the       *)
(* startup registration of media player entities, the command handler      *)
(* relay and the six lifecycle event handlers.  All handlers run on one    *)
(* cooperative event loop and none of them suspends between its first and  *)
(* last statement, so every handler is one atomic action.                  *)
(***************************************************************************)
EXTENDS Integers, Sequences, FiniteSets, TLC

\* ---- bounds of the model ------------------------------------------------
MaxCmds == 2          \* longest configured command list
MaxRuns == 2          \* number of startcheck runs explored
MaxEntityIds == 1     \* longest entity id list of a (un)subscribe event

\* ---- input alphabets ----------------------------------------------------
CmdNames == {"a", "b"}
Ids == {"p1", "p2"}
Names == {"Device 1", "Device 2"}
Absent == "<absent>"
None == "<None>"
CmdIds == {"select_source", "on"}
ParamValues == {None, "source=x"}
StatusCodes == {"OK", "NOT_FOUND"}

CONNECTED == "CONNECTED"
DISCONNECTED == "DISCONNECTED"
SELECT_SOURCE == "select_source"

VARIABLES
    cmds,          \* config.setup.cmds: the configured command list
    conf,          \* the key/value content of the config store
    registry,      \* api.available_entities, in order of addition
    device_state,  \* the framework device state
    runs,          \* number of completed startcheck runs
    lastRun,       \* branches taken by the most recent startcheck run
    lastEvent,     \* the handler that ran last
    lastCall       \* dispatcher call and return value of the last command relay

vars == <<cmds, conf, registry, device_state, runs, lastRun, lastEvent, lastCall>>

\* ---- config store ---------------------------------------------------------
IdKey(cmd) == "id-" \o cmd
NameKey(cmd) == "name-" \o cmd

\* config.setup.get(key): the stored value, or a lookup failure
ConfigGet(store, key) ==
    IF key \in DOMAIN store
    THEN [ok |-> TRUE, value |-> store[key]]
    ELSE [ok |-> FALSE, value |-> Absent]

\* config.setup.set(key, value)
ConfigSet(store, key, value) ==
    [k \in (DOMAIN store) \cup {key} |-> IF k = key THEN value ELSE store[k]]

\* a config store holding the given ids and names and the standby flag
MkConf(idOf, nameOf) ==
    LET withId == {c \in CmdNames : idOf[c] # Absent}
        withName == {c \in CmdNames : nameOf[c] # Absent}
        keys == {"standby"} \cup {IdKey(c) : c \in withId}
                            \cup {NameKey(c) : c \in withName}
    IN  [k \in keys |->
            IF k = "standby" THEN FALSE
            ELSE IF \E c \in withId : k = IdKey(c)
                 THEN idOf[CHOOSE c \in withId : k = IdKey(c)]
                 ELSE nameOf[CHOOSE c \in withName : k = NameKey(c)]]

\* ---- entity registry ------------------------------------------------------
\* api.available_entities.contains(id)
Contains(reg, id) == \E i \in 1..Len(reg) : reg[i].id = id

\* ucapi.MediaPlayer(id, name, [SELECT_SOURCE], attributes={}, cmd_handler=...)
MediaPlayer(id, name) ==
    [id |-> id, name |-> name, features |-> <<SELECT_SOURCE>>,
     attributes |-> {}, cmd_handler |-> "mp_cmd_handler"]

\* add_mp with the two constructor arguments exchanged
add_mp_Swapped(reg, id, name) == Append(reg, MediaPlayer(name, id))

\* add_mp(id, name): build the definition and add it to the registry
add_mp(reg, id, name) == Append(reg, MediaPlayer(id, name))

\* ---- startcheck -----------------------------------------------------------
NoRun == [adds |-> <<>>, skips |-> <<>>, failed |-> FALSE, failedAt |-> 0]

\* startcheck without the contains test: every command takes the add branch
RECURSIVE StartcheckFrom_NoSkip(_, _, _, _, _, _)
StartcheckFrom_NoSkip(i, list, store, reg, adds, skips) ==
    IF i > Len(list)
    THEN [registry |-> reg, adds |-> adds, skips |-> skips,
          failed |-> FALSE, failedAt |-> 0]
    ELSE LET id == ConfigGet(store, IdKey(list[i]))
             name == ConfigGet(store, NameKey(list[i]))
         IN  IF ~id.ok \/ ~name.ok
             THEN [registry |-> reg, adds |-> adds, skips |-> skips,
                   failed |-> TRUE, failedAt |-> i]
             ELSE StartcheckFrom_NoSkip(i + 1, list, store,
                                        add_mp(reg, id.value, name.value),
                                        Append(adds, i), skips)

\* startcheck guarding the lookups: a command without id or name is passed over
RECURSIVE StartcheckFrom_SkipMissing(_, _, _, _, _, _)
StartcheckFrom_SkipMissing(i, list, store, reg, adds, skips) ==
    IF i > Len(list)
    THEN [registry |-> reg, adds |-> adds, skips |-> skips,
          failed |-> FALSE, failedAt |-> 0]
    ELSE LET id == ConfigGet(store, IdKey(list[i]))
             name == ConfigGet(store, NameKey(list[i]))
         IN  IF ~id.ok \/ ~name.ok
             THEN StartcheckFrom_SkipMissing(i + 1, list, store, reg, adds, skips)
             ELSE IF Contains(reg, id.value)
                  THEN StartcheckFrom_SkipMissing(i + 1, list, store, reg,
                                                  adds, Append(skips, i))
                  ELSE StartcheckFrom_SkipMissing(i + 1, list, store,
                                                  add_mp(reg, id.value, name.value),
                                                  Append(adds, i), skips)

\* the loop of startcheck from list position i on: the registry it leaves and
\* the positions that took the add branch and the skip branch; a failed lookup
\* ends the loop at that position
RECURSIVE StartcheckFrom(_, _, _, _, _, _)
StartcheckFrom(i, list, store, reg, adds, skips) ==
    IF i > Len(list)
    THEN [registry |-> reg, adds |-> adds, skips |-> skips,
          failed |-> FALSE, failedAt |-> 0]
    ELSE LET id == ConfigGet(store, IdKey(list[i]))
             name == ConfigGet(store, NameKey(list[i]))
         IN  IF ~id.ok \/ ~name.ok
             THEN [registry |-> reg, adds |-> adds, skips |-> skips,
                   failed |-> TRUE, failedAt |-> i]
             ELSE IF Contains(reg, id.value)
                  THEN StartcheckFrom(i + 1, list, store, reg,
                                      adds, Append(skips, i))
                  ELSE StartcheckFrom(i + 1, list, store,
                                      add_mp(reg, id.value, name.value),
                                      Append(adds, i), skips)

startcheck ==
    /\ runs < MaxRuns
    /\ LET r == StartcheckFrom(1, cmds, conf, registry, <<>>, <<>>)
       IN  /\ registry' = r.registry
           /\ lastRun' = [adds |-> r.adds, skips |-> r.skips,
                          failed |-> r.failed, failedAt |-> r.failedAt]
    /\ runs' = runs + 1
    /\ lastEvent' = "startcheck"
    /\ lastCall' = None
    /\ UNCHANGED <<cmds, conf, device_state>>

\* ---- command handler relay ------------------------------------------------
\* the relay dropping the params on the way to the dispatcher
mp_cmd_handler_DropsParams(entity, cmd_id, params, status) ==
    /\ lastCall' = [entity_id |-> entity.id, cmd_id |-> cmd_id, params |-> params,
                    dispatched |-> <<[entity_id |-> entity.id, cmd_id |-> cmd_id,
                                      params |-> None]>>,
                    dispatcher_status |-> status,
                    returned |-> status]
    /\ lastEvent' = "command"
    /\ UNCHANGED <<cmds, conf, registry, device_state, runs, lastRun>>

\* media_player.mp_cmd_assigner is an external dispatcher: any status code
mp_cmd_handler(entity, cmd_id, params, status) ==
    /\ lastCall' = [entity_id |-> entity.id, cmd_id |-> cmd_id, params |-> params,
                    dispatched |-> <<[entity_id |-> entity.id, cmd_id |-> cmd_id,
                                      params |-> params]>>,
                    dispatcher_status |-> status,
                    returned |-> status]
    /\ lastEvent' = "command"
    /\ UNCHANGED <<cmds, conf, registry, device_state, runs, lastRun>>

\* ---- lifecycle event handlers ---------------------------------------------
on_r2_connect ==
    /\ device_state' = CONNECTED
    /\ lastEvent' = "connect"
    /\ lastCall' = None
    /\ UNCHANGED <<cmds, conf, registry, runs, lastRun>>

\* disconnect replying with the connected state
on_r2_disconnect_Connected ==
    /\ device_state' = CONNECTED
    /\ lastEvent' = "disconnect"
    /\ lastCall' = None
    /\ UNCHANGED <<cmds, conf, registry, runs, lastRun>>

\* disconnect dropping the available entities
on_r2_disconnect_ClearsEntities ==
    /\ device_state' = DISCONNECTED
    /\ registry' = <<>>
    /\ lastEvent' = "disconnect"
    /\ lastCall' = None
    /\ UNCHANGED <<cmds, conf, runs, lastRun>>

on_r2_disconnect ==
    /\ device_state' = DISCONNECTED
    /\ lastEvent' = "disconnect"
    /\ lastCall' = None
    /\ UNCHANGED <<cmds, conf, registry, runs, lastRun>>

on_r2_enter_standby ==
    /\ conf' = ConfigSet(conf, "standby", TRUE)
    /\ lastEvent' = "enter_standby"
    /\ lastCall' = None
    /\ UNCHANGED <<cmds, registry, device_state, runs, lastRun>>

\* exit-standby that only logs
on_r2_exit_standby_NoWrite ==
    /\ lastEvent' = "exit_standby"
    /\ lastCall' = None
    /\ UNCHANGED <<cmds, conf, registry, device_state, runs, lastRun>>

on_r2_exit_standby ==
    /\ conf' = ConfigSet(conf, "standby", FALSE)
    /\ lastEvent' = "exit_standby"
    /\ lastCall' = None
    /\ UNCHANGED <<cmds, registry, device_state, runs, lastRun>>

\* subscribe-entities writing true
on_subscribe_entities_StandbyTrue(entity_ids) ==
    /\ conf' = ConfigSet(conf, "standby", TRUE)
    /\ lastEvent' = "subscribe_entities"
    /\ lastCall' = None
    /\ UNCHANGED <<cmds, registry, device_state, runs, lastRun>>

on_subscribe_entities(entity_ids) ==
    /\ conf' = ConfigSet(conf, "standby", FALSE)
    /\ lastEvent' = "subscribe_entities"
    /\ lastCall' = None
    /\ UNCHANGED <<cmds, registry, device_state, runs, lastRun>>

\* unsubscribe-entities writing the standby flag as subscribe-entities does
on_unsubscribe_entities_WritesStandby(entity_ids) ==
    /\ conf' = ConfigSet(conf, "standby", FALSE)
    /\ lastEvent' = "unsubscribe_entities"
    /\ lastCall' = None
    /\ UNCHANGED <<cmds, registry, device_state, runs, lastRun>>

on_unsubscribe_entities(entity_ids) ==
    /\ lastEvent' = "unsubscribe_entities"
    /\ lastCall' = None
    /\ UNCHANGED <<cmds, conf, registry, device_state, runs, lastRun>>

\* ---- the driver -----------------------------------------------------------
SeqsUpTo(S, n) == UNION {[1..k -> S] : k \in 0..n}

Init ==
    /\ cmds \in SeqsUpTo(CmdNames, MaxCmds)
    /\ \E idOf \in [CmdNames -> Ids \cup {Absent}],
          nameOf \in [CmdNames -> Names \cup {Absent}] :
          conf = MkConf(idOf, nameOf)
    /\ registry = <<>>
    /\ device_state = None
    /\ runs = 0
    /\ lastRun = NoRun
    /\ lastEvent = None
    /\ lastCall = None

Command ==
    \E i \in 1..Len(registry), cmd_id \in CmdIds,
       params \in ParamValues, status \in StatusCodes :
        mp_cmd_handler(registry[i], cmd_id, params, status)

Subscribe == \E entity_ids \in SeqsUpTo(Ids, MaxEntityIds) : on_subscribe_entities(entity_ids)

Unsubscribe == \E entity_ids \in SeqsUpTo(Ids, MaxEntityIds) : on_unsubscribe_entities(entity_ids)

Next ==
    \/ startcheck
    \/ Command
    \/ on_r2_connect
    \/ on_r2_disconnect
    \/ on_r2_enter_standby
    \/ on_r2_exit_standby
    \/ Subscribe
    \/ Unsubscribe

Spec == Init /\ [][Next]_vars

\* ---- properties -------------------------------------------------------------
Standby == conf["standby"]
RegIds == {registry[i].id : i \in 1..Len(registry)}
HasKeys(cmd) == IdKey(cmd) \in DOMAIN conf /\ NameKey(cmd) \in DOMAIN conf
AllKeysPresent == \A i \in 1..Len(cmds) : HasKeys(cmds[i])
MissingAt == {i \in 1..Len(cmds) : ~HasKeys(cmds[i])}
FirstMissing == CHOOSE i \in MissingAt : \A j \in MissingAt : i <= j
Positions(n) == [i \in 1..n |-> i]
Range(s) == {s[i] : i \in 1..Len(s)}

\* C1: from an empty registry, when every configured command has an id and a
\* name, the first startcheck run ends without failure and leaves exactly the
\* entities whose ids are the configured commands' ids, each added once.
C1_StartcheckRegistersConfigured ==
    (runs = 1 /\ AllKeysPresent) =>
        /\ ~lastRun.failed
        /\ RegIds = {conf[IdKey(cmds[i])] : i \in 1..Len(cmds)}
        /\ Len(registry) = Cardinality(RegIds)
        /\ Len(lastRun.adds) = Len(registry)

C1_Witness ==
    /\ runs = 1 /\ AllKeysPresent
    /\ Len(cmds) = 2 /\ cmds[1] # cmds[2]
    /\ RegIds = {"p1", "p2"}

\* C2 as stated: every further startcheck run adds nothing, leaves the
\* registry as it was, and every command takes the skip branch.
C2_EveryCommandSkips ==
    [][(runs >= 1 /\ runs' = runs + 1) =>
            /\ registry' = registry
            /\ lastRun'.adds = <<>>
            /\ lastRun'.skips = Positions(Len(cmds))]_vars

\* C2 amended: every further startcheck run adds nothing and leaves the
\* registry as it was; every command takes the skip branch when all commands
\* have an id and a name, and otherwise the run fails at the first command
\* with a missing key after the commands before it took the skip branch.
C2_StartcheckIdempotent ==
    [][(runs >= 1 /\ runs' = runs + 1) =>
            /\ registry' = registry
            /\ lastRun'.adds = <<>>
            /\ (AllKeysPresent => ~lastRun'.failed
                                  /\ lastRun'.skips = Positions(Len(cmds)))
            /\ (~AllKeysPresent => lastRun'.failed
                                   /\ lastRun'.failedAt = FirstMissing
                                   /\ lastRun'.skips = Positions(FirstMissing - 1))]_vars

C2_Witness ==
    /\ runs = 2 /\ AllKeysPresent
    /\ Len(cmds) = 2 /\ Len(registry) = 2
    /\ lastRun.adds = <<>> /\ lastRun.skips = <<1, 2>>

C5_RelayPassesThrough ==
    lastEvent = "command" =>
        /\ lastCall.dispatched = <<[entity_id |-> lastCall.entity_id,
                                    cmd_id |-> lastCall.cmd_id,
                                    params |-> lastCall.params]>>
        /\ lastCall.entity_id \in RegIds
        /\ lastCall.returned = lastCall.dispatcher_status

C5_Witness ==
    /\ lastEvent = "command"
    /\ lastCall.params = None
    /\ lastCall.returned = "NOT_FOUND"

\* C6: connect sets the device state to connected, disconnect sets it to
\* disconnected, and no other handler changes the device state.
C6_DeviceStateFollowsConnection ==
    [][/\ (lastEvent' = "connect" => device_state' = CONNECTED)
       /\ (lastEvent' = "disconnect" => device_state' = DISCONNECTED)
       /\ (lastEvent' \notin {"connect", "disconnect"}
              => device_state' = device_state)]_vars

C6_Witness ==
    /\ lastEvent = "enter_standby" /\ device_state = DISCONNECTED

\* C7: the unsubscribe-entities handler leaves the config store, the device
\* state and the entity registry unchanged.
C7_UnsubscribeChangesNothing ==
    [][lastEvent' = "unsubscribe_entities" =>
            /\ conf' = conf
            /\ device_state' = device_state
            /\ registry' = registry]_vars

C7_Witness ==
    /\ lastEvent = "unsubscribe_entities"
    /\ Standby = TRUE /\ device_state = CONNECTED /\ Len(registry) = 2

\* C8: the registry only grows: every registered entity stays registered with
\* the same id, name, select-source capability and empty attribute set, and
\* only startcheck adds entities.
C8_RegistryOnlyGrows ==
    [][/\ Len(registry') >= Len(registry)
       /\ \A i \in 1..Len(registry) : \E j \in 1..Len(registry') :
              registry'[j] = registry[i]
       /\ \A j \in 1..Len(registry') :
              /\ registry'[j].features = <<SELECT_SOURCE>>
              /\ registry'[j].attributes = {}
       /\ (lastEvent' # "startcheck" => registry' = registry)]_vars

C8_Witness ==
    /\ runs = 2 /\ Len(registry) = 2
    /\ lastEvent = "disconnect"

\* C9: a configured command without id or name makes startcheck fail at the
\* first such command: the entities of the commands before it are registered,
\* and nothing is registered for it or for a command after it.
C9_MissingKeyFailsAtCommand ==
    (runs >= 1 /\ ~AllKeysPresent) =>
        /\ lastRun.failed
        /\ lastRun.failedAt = FirstMissing
        /\ Range(lastRun.adds) \cup Range(lastRun.skips)
               \subseteq 1..(FirstMissing - 1)
        /\ RegIds = {conf[IdKey(cmds[j])] : j \in 1..(FirstMissing - 1)}

C9_Witness ==
    /\ runs = 1 /\ Len(cmds) = 2
    /\ ~HasKeys(cmds[1]) /\ HasKeys(cmds[2])
    /\ lastRun.failed /\ lastRun.failedAt = 1
    /\ registry = <<>>

\* C10: the registry never holds two entities with one id; an entity carries
\* the name of the first configured command with its id, and after a run
\* without failure there are as many entities as distinct configured ids.
FirstWithId(id) ==
    CHOOSE i \in 1..Len(cmds) :
        /\ IdKey(cmds[i]) \in DOMAIN conf /\ conf[IdKey(cmds[i])] = id
        /\ \A j \in 1..(i - 1) :
              ~(IdKey(cmds[j]) \in DOMAIN conf /\ conf[IdKey(cmds[j])] = id)

C10_OneEntityPerId ==
    /\ \A i, j \in 1..Len(registry) :
          registry[i].id = registry[j].id => i = j
    /\ \A i \in 1..Len(registry) :
          /\ \E k \in 1..Len(cmds) :
                IdKey(cmds[k]) \in DOMAIN conf /\ conf[IdKey(cmds[k])] = registry[i].id
          /\ registry[i].name = conf[NameKey(cmds[FirstWithId(registry[i].id)])]
    /\ (runs >= 1 /\ ~lastRun.failed) =>
          Len(registry) = Cardinality({conf[IdKey(cmds[k])] : k \in 1..Len(cmds)})

C10_Witness ==
    /\ runs = 1 /\ Len(cmds) = 2 /\ cmds[1] # cmds[2]
    /\ HasKeys(cmds[1]) /\ HasKeys(cmds[2])
    /\ conf[IdKey(cmds[1])] = conf[IdKey(cmds[2])]
    /\ conf[NameKey(cmds[1])] # conf[NameKey(cmds[2])]
    /\ Len(registry) = 1
    /\ registry[1].name = conf[NameKey(cmds[1])]
    /\ lastRun.adds = <<1>> /\ lastRun.skips = <<2>>

====
